---- MODULE Spec2Model ----
(***************************************************************************)
(* Model of src/system/mutation_fuzzer.py: the generic character mutators, *)
(* replace_sql_token, and the MyMutationFuzzer engine (seed list,          *)
(* population, seeding cursor).                                            *)
(*                                                                         *)
(* A Python str is a sequence of code points (naturals); a Python list is  *)
(* a sequence held in the heap under an object identity, so that two       *)
(* attributes bound to the same list object see each other's appends.      *)
(* Python indexes from 0, TLA+ sequences from 1: position p of the source  *)
(* is element p+1 here.                                                    *)
(***************************************************************************)
EXTENDS Integers, Sequences, FiniteSets, TLC

VARIABLES
    heap,           \* list objects: identity -> contents
    seed,           \* self.seed: identity of a list object
    population,     \* self.population: identity of a list object
    seed_index,     \* self.seed_index
    min_mutations,  \* self.min_mutations
    max_mutations,  \* self.max_mutations
    inp,            \* self.inp (Unset until the first fuzz() assigns it)
    raised,         \* exception the last call ended with, "none" if it returned
    op,             \* the last call: its name, its random picks, its return value
    seed0,          \* contents of the constructor's seed argument at construction
    calls           \* number of fuzz() calls since construction, counted up to
                    \* Len(seed0) + 1; reset() ends the count (Len(seed0) + 1)

vars == << heap, seed, population, seed_index, min_mutations, max_mutations,
           inp, raised, op, seed0, calls >>

engine == << heap, seed, population, seed_index, min_mutations, max_mutations,
             inp, seed0, calls >>

----------------------------------------------------------------------------
(* Bounds of the model. *)

MaxSeeds == 2      \* longest seed list given to the constructor
MaxPop == 3        \* add_seed is called only while the population is shorter
MaxMut == 2        \* largest min_mutations / max_mutations given to the constructor
MaxChar == 32      \* the engine is explored for the character draws 32 .. MaxChar
MaxBit == 0        \* the engine is explored for the bit draws 0 .. MaxBit
MaxStrLen == 2     \* longest input string of the mutator harness
MaxWords == 2      \* most words in an input string of the SQL harness

(* Program constants. *)

PrintableLo == 32  \* random.randrange(32, 127)
PrintableHi == 127
FlipBitLo == 0     \* random.randint(0, 6)
FlipBitHi == 6
DefaultMin == 2    \* min_mutations: int = 2
DefaultMax == 10   \* max_mutations: int = 10
MaxFiller == 30    \* "A" * random.randint(1, 30)
SeedList == "seed"  \* identity of the list object passed to the constructor

Unset == << -1 >>  \* self.inp before any assignment (no such attribute)

----------------------------------------------------------------------------
(* The random module. A draw is modelled by the set of values it can      *)
(* return; rnd restricts the values the random source yields for          *)
(* characters and bit positions: FullRandom restricts nothing and is the  *)
(* source of the mutator harness; EngineRandom is the part of the draws   *)
(* of lines 26 and 37 the engine is explored under, up to the bounds      *)
(* MaxChar and MaxBit.                                                    *)

randint(a, b) == a .. b
randrange(a, b) == a .. (b - 1)

FullRandom == [chars |-> 0 .. 255, bits |-> 0 .. 31]
EngineRandom == [chars |-> 0 .. MaxChar, bits |-> 0 .. MaxBit]

(* s[:pos] and s[pos:] *)
Prefix(s, pos) == SubSeq(s, 1, pos)
Suffix(s, pos) == SubSeq(s, pos + 1, Len(s))

(* 1 << b *)
Pow2(b) == CASE b = 0 -> 1 [] b = 1 -> 2 [] b = 2 -> 4 [] b = 3 -> 8
             [] b = 4 -> 16 [] b = 5 -> 32 [] b = 6 -> 64 [] b = 7 -> 128
             [] OTHER -> 256

(* c ^ bit for a one-bit mask: the bit is cleared if set, set if clear *)
XorBit_or(c, bit) == IF (c \div bit) % 2 = 1 THEN c ELSE c + bit
XorBit(c, bit) == IF (c \div bit) % 2 = 1 THEN c - bit ELSE c + bit

----------------------------------------------------------------------------
(* Generic mutators: each yields the set of strings the call can return.  *)

delete_random_character(s) ==
    IF s = << >> THEN {s}
    ELSE { Prefix(s, pos) \o Suffix(s, pos + 1) : pos \in randint(0, Len(s) - 1) }

insert_random_character_replace(s, rnd) ==
    { Prefix(s, pos) \o << c >> \o Suffix(s, pos + 1) :
        pos \in randint(0, Len(s)),
        c \in randrange(PrintableLo, PrintableHi) \cap rnd.chars }
insert_random_character(s, rnd) ==
    { Prefix(s, pos) \o << c >> \o Suffix(s, pos) :
        pos \in randint(0, Len(s)),
        c \in randrange(PrintableLo, PrintableHi) \cap rnd.chars }

flip_random_character(s, rnd) ==
    IF s = << >> THEN {s}
    ELSE { Prefix(s, pos) \o << XorBit(s[pos + 1], Pow2(b)) >> \o Suffix(s, pos + 1) :
             pos \in randint(0, Len(s) - 1),
             b \in randint(FlipBitLo, FlipBitHi) \cap rnd.bits }

----------------------------------------------------------------------------
(* MyMutationFuzzer *)

(* mutate: one of the three generic mutators, chosen at random *)
mutate(s, rnd) ==
    delete_random_character(s) \cup insert_random_character(s, rnd)
        \cup flip_random_character(s, rnd)

(* the loop of create_candidate: n successive calls of mutate, each on the *)
(* previous call's result                                                  *)
RECURSIVE mutations(_, _, _)
mutations(S, n, rnd) ==
    IF n = 0 THEN S
    ELSE mutations(UNION { mutate(c, rnd) : c \in S }, n - 1, rnd)

(* trials = random.randint(self.min_mutations, self.max_mutations) *)
trials_wide(lo, hi) == randint(lo, hi + 1)
trials(lo, hi) == randint(lo, hi)

(* the strings given as seeds, to the constructor and to add_seed *)
SeedStrings == { << >>, << 33 >> }

(* The results of the loop, tabulated once for the members and trial      *)
(* counts the engine is explored with; any other argument is computed.    *)
CandidateTable ==
    [m \in SeedStrings, t \in 0 .. MaxMut |-> mutations({m}, t, EngineRandom)]

Candidates(m, t, rnd) ==
    IF rnd = EngineRandom /\ << m, t >> \in DOMAIN CandidateTable
    THEN CandidateTable[m, t]
    ELSE mutations({m}, t, rnd)

(* create_candidate: the outcomes of one call. random.choice raises       *)
(* IndexError on an empty population, random.randint raises ValueError on *)
(* an empty range.                                                         *)
create_candidate(pop, lo, hi, rnd) ==
    IF pop = << >> THEN { [raised |-> "IndexError"] }
    ELSE IF trials(lo, hi) = {} THEN { [raised |-> "ValueError"] }
    ELSE UNION { UNION { { [raised |-> "none", member |-> pop[i], trials |-> t,
                            candidate |-> c] : c \in Candidates(pop[i], t, rnd) } :
                         t \in trials(lo, hi) } :
                 i \in 1 .. Len(pop) }

(* self.population.append(seed) *)
list_append_dedup(l, x) == IF \E i \in 1 .. Len(l) : l[i] = x THEN l ELSE Append(l, x)
list_append(l, x) == Append(l, x)

(* self.seed_index += 1 *)
advance_back(i) == i - 1
advance_twice(i) == i + 2
advance(i) == i + 1

SeedLists == UNION { [1 .. n -> SeedStrings] : n \in 0 .. MaxSeeds }

Bump(n, k) == IF n <= k THEN n + 1 ELSE n

(* __init__ followed by reset: population and seed name the same list *)
Init ==
    /\ \E l \in SeedLists : heap = (SeedList :> l) /\ seed0 = l
    /\ seed = SeedList
    /\ min_mutations \in 0 .. MaxMut
    /\ max_mutations \in 0 .. MaxMut
    /\ population = seed
    /\ seed_index = 0
    /\ inp = Unset
    /\ raised = "none"
    /\ op = [name |-> "__init__"]
    /\ calls = 0

(* add_seed(x) *)
add_seed ==
    /\ Len(heap[population]) < MaxPop
    /\ \E x \in SeedStrings :
         /\ heap' = [heap EXCEPT ![population] = list_append(@, x)]
         /\ op' = [name |-> "add_seed", arg |-> x]
    /\ raised' = "none"
    /\ UNCHANGED << seed, population, seed_index, min_mutations, max_mutations,
                    inp, seed0, calls >>

(* fuzz(), the branch "still seeding" *)
fuzz_seeding ==
    /\ seed_index < Len(heap[seed])
    /\ inp' = heap[seed][seed_index + 1]
    /\ seed_index' = advance(seed_index)
    /\ op' = [name |-> "fuzz", branch |-> "seeding", ret |-> inp']
    /\ raised' = "none"
    /\ calls' = Bump(calls, Len(seed0))
    /\ UNCHANGED << heap, seed, population, min_mutations, max_mutations, seed0 >>

(* fuzz(), the branch "mutating" *)
fuzz_mutating ==
    /\ ~ (seed_index < Len(heap[seed]))
    /\ \E r \in create_candidate(heap[population], min_mutations, max_mutations,
                                 EngineRandom) :
         /\ raised' = r.raised
         /\ IF r.raised = "none"
            THEN /\ inp' = r.candidate
                 /\ op' = [name |-> "fuzz", branch |-> "mutating", ret |-> r.candidate,
                           member |-> r.member, trials |-> r.trials]
            ELSE /\ inp' = inp
                 /\ op' = [name |-> "fuzz", branch |-> "mutating"]
    /\ calls' = Bump(calls, Len(seed0))
    /\ UNCHANGED << heap, seed, population, seed_index, min_mutations, max_mutations,
                    seed0 >>

fuzz == fuzz_seeding \/ fuzz_mutating

(* reset(): population is bound to the list self.seed names, the cursor   *)
(* goes back to 0                                                         *)
reset ==
    /\ population' = seed
    /\ seed_index' = 0
    /\ op' = [name |-> "reset"]
    /\ raised' = "none"
    /\ calls' = Len(seed0) + 1
    /\ UNCHANGED << heap, seed, min_mutations, max_mutations, inp, seed0 >>

(* The public methods: fuzz, add_seed and reset. create_candidate is      *)
(* called by fuzz.                                                        *)
Next == fuzz_seeding \/ fuzz_mutating \/ add_seed \/ reset

Spec == Init /\ [][Next]_vars

----------------------------------------------------------------------------
(* str methods, on the code points the model uses (ASCII) *)

IsSpaceChar(c) == c \in (9 .. 13) \cup (28 .. 32)
IsUpperChar(c) == c \in 65 .. 90
IsLowerChar(c) == c \in 97 .. 122
IsDigitChar(c) == c \in 48 .. 57

str_isspace(t) == t # << >> /\ \A k \in 1 .. Len(t) : IsSpaceChar(t[k])
str_upper(t) == [k \in 1 .. Len(t) |-> IF IsLowerChar(t[k]) THEN t[k] - 32 ELSE t[k]]
str_lower(t) == [k \in 1 .. Len(t) |-> IF IsUpperChar(t[k]) THEN t[k] + 32 ELSE t[k]]
str_isupper(t) ==
    /\ \E k \in 1 .. Len(t) : IsUpperChar(t[k])
    /\ \A k \in 1 .. Len(t) : ~ IsLowerChar(t[k])
str_islower(t) ==
    /\ \E k \in 1 .. Len(t) : IsLowerChar(t[k])
    /\ \A k \in 1 .. Len(t) : ~ IsUpperChar(t[k])

(* re.fullmatch(r"\d+", t) *)
IsDigits(t) == t # << >> /\ \A k \in 1 .. Len(t) : IsDigitChar(t[k])

(* inner.replace("a", "@", 1) *)
ReplaceFirstA(inner) ==
    IF \E k \in 1 .. Len(inner) : inner[k] = 97
    THEN LET k == CHOOSE k \in 1 .. Len(inner) :
                    inner[k] = 97 /\ \A j \in 1 .. (k - 1) : inner[j] # 97
         IN  [inner EXCEPT ![k] = 64]
    ELSE inner

(* "A" * n *)
Filler(n) == [k \in 1 .. n |-> 65]

----------------------------------------------------------------------------
(* Tokenizer and keyword set. The source calls _tok, _unt and _SQL_KW but *)
(* binds none of the three names (helpers_bound): a call of               *)
(* replace_sql_token ends at line 48 with NameError. What the names stand *)
(* for is modelled from the specification, for the body of the function   *)
(* and for the statement of its properties.                               *)

helpers_bound == FALSE

Quote == 39

(* SELECT WHERE JOIN UNION DROP ORDER GROUP AND OR *)
_SQL_KW ==
    << << 83, 69, 76, 69, 67, 84 >>, << 87, 72, 69, 82, 69 >>, << 74, 79, 73, 78 >>,
       << 85, 78, 73, 79, 78 >>, << 68, 82, 79, 80 >>, << 79, 82, 68, 69, 82 >>,
       << 71, 82, 79, 85, 80 >>, << 65, 78, 68 >>, << 79, 82 >> >>

InKw(t) == \E k \in 1 .. Len(_SQL_KW) : _SQL_KW[k] = t

IsWordChar(c) == ~ IsSpaceChar(c) /\ c # Quote

(* last position of the maximal run of whitespace (of word characters)    *)
(* that starts at position k of s; k - 1 if there is none                 *)
RECURSIVE SpaceRun(_, _)
SpaceRun(s, k) ==
    IF k <= Len(s) /\ IsSpaceChar(s[k]) THEN SpaceRun(s, k + 1) ELSE k - 1

RECURSIVE WordRun(_, _)
WordRun(s, k) ==
    IF k <= Len(s) /\ IsWordChar(s[k]) THEN WordRun(s, k + 1) ELSE k - 1

(* length of the first token of a non-empty s: a whitespace run, a quoted *)
(* literal up to its closing quote, or a run of other characters          *)
FirstTokenLen(s) ==
    IF IsSpaceChar(s[1]) THEN SpaceRun(s, 1)
    ELSE IF s[1] = Quote /\ \E k \in 2 .. Len(s) : s[k] = Quote
         THEN CHOOSE k \in 2 .. Len(s) :
                  s[k] = Quote /\ \A j \in 2 .. (k - 1) : s[j] # Quote
    ELSE IF s[1] = Quote THEN WordRun(s, 2)
    ELSE WordRun(s, 1)

RECURSIVE _tok(_)
_tok(s) ==
    IF s = << >> THEN << >>
    ELSE LET n == FirstTokenLen(s)
         IN  << Prefix(s, n) >> \o _tok(Suffix(s, n))

RECURSIVE _unt(_)
_unt(ts) == IF ts = << >> THEN << >> ELSE Head(ts) \o _unt(Tail(ts))

----------------------------------------------------------------------------
(* replace_sql_token *)

BoundaryValues ==
    { << 48 >>, << 45, 49 >>, << 49 >>,
      << 50, 49, 52, 55, 52, 56, 51, 54, 52, 55 >>,
      << 45, 50, 49, 52, 55, 52, 56, 51, 54, 52, 56 >>,
      << 57, 50, 50, 51, 51, 55, 50, 48, 51, 54, 56, 53, 52, 55, 55, 53, 56, 48, 55 >>,
      << 45, 57, 50, 50, 51, 51, 55, 50, 48, 51, 54, 56, 53, 52, 55, 55, 53, 56, 48, 56 >> }

Suffixes == { << 95, 120 >>, << 95, 95 >>, << 48 >> }

(* The module imports random, typing and fuzzingbook.Fuzzer only: the    *)
(* name re of line 59 is not bound.                                       *)
re_imported == FALSE

(* lines 54-77 for the chosen token t: the texts it can be replaced by,   *)
(* or the NameError of line 59, which is evaluated when t is no keyword   *)
Replacements(t) ==
    IF InKw(str_upper(t))
    THEN { [raised |-> "none",
            text |-> IF str_isupper(t) THEN _SQL_KW[k] ELSE str_lower(_SQL_KW[k])] :
             k \in 1 .. Len(_SQL_KW) }
    ELSE IF ~ re_imported THEN { [raised |-> "NameError"] }
    ELSE IF IsDigits(t) THEN { [raised |-> "none", text |-> x] : x \in BoundaryValues }
    ELSE IF t[1] = Quote /\ t[Len(t)] = Quote
    THEN LET inner == SubSeq(t, 2, Len(t) - 1)
         IN  { [raised |-> "none",
                text |-> << Quote >> \o inner \o Filler(n) \o << Quote >>] :
                 n \in randint(1, MaxFiller) }
             \cup { [raised |-> "none",
                     text |-> << Quote >>
                        \o (IF \E k \in 1 .. Len(inner) : inner[k] = 97
                            THEN ReplaceFirstA(inner) ELSE inner \o << 33 >>)
                        \o << Quote >>] }
    ELSE { [raised |-> "none", text |-> t \o x] : x \in Suffixes }
         \cup { [raised |-> "none",
                 text |-> IF str_islower(t) THEN str_upper(t) ELSE str_lower(t)] }

(* the outcomes of one call: the chosen token (0 if none) and the result, *)
(* or the exception the call ends with                                    *)
replace_sql_token(s) ==
    LET ts == _tok(s)
        idx == { k \in 1 .. Len(ts) : ~ str_isspace(ts[k]) }
    IN  IF ~ helpers_bound THEN { [i |-> 0, raised |-> "NameError"] }
        ELSE IF idx = {} THEN { [i |-> 0, raised |-> "none", ret |-> s] }
        ELSE UNION { { IF r.raised = "none"
                       THEN [i |-> k, raised |-> "none",
                             ret |-> _unt([ts EXCEPT ![k] = r.text])]
                       ELSE [i |-> k, raised |-> r.raised] :
                         r \in Replacements(ts[k]) } : k \in idx }

----------------------------------------------------------------------------
(* Harness of the generic mutators: an engine is built over one seed      *)
(* string with the default configuration, and the mutators are called on  *)
(* that string.                                                            *)

InputChars == { 32, 65, 127 }

Strings(chars, n) == UNION { [1 .. k -> chars] : k \in 0 .. n }

InitOver(strings) ==
    /\ \E s \in strings : heap = (SeedList :> << s >>) /\ seed0 = << s >>
    /\ seed = SeedList
    /\ min_mutations = DefaultMin
    /\ max_mutations = DefaultMax
    /\ population = seed
    /\ seed_index = 0
    /\ inp = Unset
    /\ raised = "none"
    /\ op = [name |-> "__init__"]
    /\ calls = 0

MutInit == InitOver(Strings(InputChars, MaxStrLen))

call_delete_random_character ==
    /\ \E r \in delete_random_character(heap[seed][1]) :
         op' = [name |-> "delete_random_character", s |-> heap[seed][1], ret |-> r]
    /\ raised' = "none"
    /\ UNCHANGED engine

call_insert_random_character ==
    /\ \E r \in insert_random_character(heap[seed][1], FullRandom) :
         op' = [name |-> "insert_random_character", s |-> heap[seed][1], ret |-> r]
    /\ raised' = "none"
    /\ UNCHANGED engine

call_flip_random_character ==
    /\ \E r \in flip_random_character(heap[seed][1], FullRandom) :
         op' = [name |-> "flip_random_character", s |-> heap[seed][1], ret |-> r]
    /\ raised' = "none"
    /\ UNCHANGED engine

MutNext ==
    \/ call_delete_random_character
    \/ call_insert_random_character
    \/ call_flip_random_character

SpecMut == MutInit /\ [][MutNext]_vars

----------------------------------------------------------------------------
(* Harness of replace_sql_token: inputs are up to MaxWords words joined   *)
(* by single spaces.                                                       *)

(* OR  or  Or  7  'a b'  x  =  100 *)
SqlWords ==
    { << 79, 82 >>, << 111, 114 >>, << 79, 114 >>, << 55 >>,
      << 39, 97, 32, 98, 39 >>, << 120 >>, << 61 >>, << 49, 48, 48 >> }

RECURSIVE Join(_)
Join(ws) ==
    IF Len(ws) = 1 THEN ws[1] ELSE ws[1] \o << 32 >> \o Join(Tail(ws))

SqlInputs == { << >> } \cup { << 32 >> }
             \cup { Join(ws) : ws \in UNION { [1 .. n -> SqlWords] : n \in 1 .. MaxWords } }

SqlInit == InitOver(SqlInputs)

call_replace_sql_token ==
    /\ \E r \in replace_sql_token(heap[seed][1]) :
         /\ raised' = r.raised
         /\ op' = IF r.raised = "none"
                  THEN [name |-> "replace_sql_token", s |-> heap[seed][1], i |-> r.i,
                        ret |-> r.ret]
                  ELSE [name |-> "replace_sql_token", s |-> heap[seed][1], i |-> r.i]
    /\ UNCHANGED engine

SqlNext == call_replace_sql_token

SpecSql == SqlInit /\ [][SqlNext]_vars

----------------------------------------------------------------------------
(* Properties of the engine (specification Spec) *)

Mutating == seed_index >= Len(heap[seed])
ValidConfiguration == Len(seed0) > 0 /\ min_mutations <= max_mutations
Members(l) == { l[k] : k \in 1 .. Len(l) }
Abs(n) == IF n < 0 THEN 0 - n ELSE n
Differences(a, b) == { k \in 1 .. Len(a) : a[k] # b[k] }

(* C1: once the cursor of an engine built from a non-empty seed list has *)
(* reached the length of the seed list, the engine is in Mutating state   *)
(* and no later call of fuzz or add_seed puts it back into Seeding state. *)
C1_SeedingToMutatingOneWay ==
    [][ (ValidConfiguration /\ Mutating /\ op'.name \in { "fuzz", "add_seed" })
        => Mutating' ]_vars

(* C2: add_seed, on an engine built from a non-empty seed list, leaves    *)
(* the seed list (its length and its elements) and the seeding cursor     *)
(* unchanged.                                                             *)
C2_AddSeedLeavesSeedList ==
    [][ (ValidConfiguration /\ op'.name = "add_seed")
        => heap'[seed'] = heap[seed] /\ seed_index' = seed_index ]_vars

(* C3: the k-th fuzz call, k up to the length n of the constructor's     *)
(* seed list, returns the k-th original seed and moves the cursor from    *)
(* k-1 to k, whatever add_seed calls come between; a fuzz call made with  *)
(* the cursor at the end of the seed list takes the mutating branch and   *)
(* leaves the cursor unchanged.                                           *)
C3_SeedsDispensedInOrder ==
    [][ /\ (calls' = calls + 1 /\ calls' <= Len(seed0))
           => /\ op'.name = "fuzz" /\ op'.branch = "seeding" /\ raised' = "none"
              /\ op'.ret = seed0[calls'] /\ inp' = seed0[calls']
              /\ seed_index = calls /\ seed_index' = calls'
        /\ (op'.name = "fuzz" /\ Mutating)
           => op'.branch = "mutating" /\ seed_index' = seed_index ]_vars

C3_Witness ==
    /\ op.name = "fuzz" /\ calls = 2 /\ Len(seed0) = 2
    /\ seed0[1] # seed0[2] /\ inp = seed0[2]
    /\ Len(heap[seed]) > Len(seed0)

(* C4: the constructor rejects an empty seed list and max_mutations <    *)
(* min_mutations with InvalidConfiguration, so that no constructed engine *)
(* has an empty population or an empty range of trial counts and          *)
(* create_candidate never faults.                                         *)
C4_InvalidConfigurationRejected ==
    /\ (Len(seed0) = 0 \/ max_mutations < min_mutations)
       => raised = "InvalidConfiguration"
    /\ raised \notin { "IndexError", "ValueError" }

(* C5: the population is append-only: the constructor's seed list stays  *)
(* a prefix of it, add_seed(x) grows it from N to N+1 elements with x     *)
(* last, and fuzz (with the create_candidate call it makes) leaves it     *)
(* unchanged.                                                             *)
C5_PopulationAppendOnly ==
    /\ [] ( /\ Len(heap[population]) >= Len(seed0)
            /\ SubSeq(heap[population], 1, Len(seed0)) = seed0 )
    /\ [][ /\ op'.name = "add_seed"
              => /\ Len(heap'[population']) = Len(heap[population]) + 1
                 /\ SubSeq(heap'[population'], 1, Len(heap[population]))
                      = heap[population]
                 /\ heap'[population'][Len(heap'[population'])] = op'.arg
           /\ op'.name = "fuzz" => heap'[population'] = heap[population] ]_vars

C5_Witness ==
    /\ op.name = "add_seed"
    /\ Len(heap[population]) = Len(seed0) + 1 /\ Len(seed0) = 2
    /\ op.arg = seed0[1] /\ seed0[1] = seed0[2]
    /\ heap[population] = seed0 \o << op.arg >>

(* C9: the cursor stays within 0 .. length of the seed list and no call  *)
(* of fuzz (with the create_candidate call it makes) or add_seed          *)
(* decreases it.                                                          *)
C9_CursorBoundedMonotone ==
    /\ [] (0 <= seed_index /\ seed_index <= Len(heap[seed]))
    /\ [][ op'.name \in { "fuzz", "add_seed" } => seed_index' >= seed_index ]_vars

C9_Witness ==
    /\ op.name = "fuzz" /\ op.branch = "seeding"
    /\ seed_index = Len(heap[seed]) /\ seed_index >= 2

(* C10: a candidate is made from one population member by t mutations,   *)
(* min_mutations <= t <= max_mutations, each applied to the result of     *)
(* the one before: its length differs from the member's by at most t, a   *)
(* single mutation changes at most one position or the length by one, and *)
(* no mutation leaves the member unchanged.                               *)
C10_CandidateFromMember ==
    (op.name = "fuzz" /\ op.branch = "mutating" /\ raised = "none")
    => /\ min_mutations <= op.trials /\ op.trials <= max_mutations
       /\ op.member \in Members(heap[population])
       /\ inp = op.ret
       /\ Abs(Len(op.ret) - Len(op.member)) <= op.trials
       /\ op.trials = 1
          => \/ Abs(Len(op.ret) - Len(op.member)) = 1
             \/ /\ Len(op.ret) = Len(op.member)
                /\ Cardinality(Differences(op.ret, op.member)) <= 1
       /\ op.trials = 0 => op.ret = op.member
       /\ (min_mutations = 0 /\ max_mutations = 0)
          => op.ret \in Members(heap[population])

C10_Witness ==
    /\ op.name = "fuzz" /\ op.branch = "mutating" /\ raised = "none"
    /\ op.trials = 2 /\ min_mutations = 1
    /\ Len(op.ret) = Len(op.member) + 2

----------------------------------------------------------------------------
(* Properties of the generic mutators (specification SpecMut) *)

(* C6: delete shortens a non-empty string by one character, flip keeps   *)
(* its length, insert lengthens any string by one character whose code is *)
(* in 32..126; delete and flip return the empty string unchanged.         *)
C6_LengthLaws ==
    /\ op.name = "delete_random_character"
       => IF op.s = << >> THEN op.ret = << >> ELSE Len(op.ret) = Len(op.s) - 1
    /\ op.name = "flip_random_character"
       => IF op.s = << >> THEN op.ret = << >> ELSE Len(op.ret) = Len(op.s)
    /\ op.name = "insert_random_character"
       => /\ Len(op.ret) = Len(op.s) + 1
          /\ \E k \in 1 .. Len(op.ret) :
               /\ op.ret[k] >= 32 /\ op.ret[k] <= 126
               /\ SubSeq(op.ret, 1, k - 1) = SubSeq(op.s, 1, k - 1)
               /\ SubSeq(op.ret, k + 1, Len(op.ret)) = SubSeq(op.s, k, Len(op.s))

C6_Witness ==
    /\ op.name = "insert_random_character"
    /\ op.s = << 127 >> /\ op.ret = << 127, 126 >>

(* C7: flip changes a non-empty string at exactly one index, and there   *)
(* the new code differs from the old one in exactly one bit, one of the   *)
(* bits 0..6.                                                             *)
BitAt(c, k) == (c \div (2 ^ k)) % 2
DifferingBits(a, b) == { k \in 0 .. 15 : BitAt(a, k) # BitAt(b, k) }

C7_BitFlip ==
    (op.name = "flip_random_character" /\ op.s # << >>)
    => /\ Len(op.ret) = Len(op.s)
       /\ Cardinality(Differences(op.ret, op.s)) = 1
       /\ \A k \in Differences(op.ret, op.s) :
            /\ Cardinality(DifferingBits(op.ret[k], op.s[k])) = 1
            /\ DifferingBits(op.ret[k], op.s[k]) \subseteq 0 .. 6

C7_Witness ==
    /\ op.name = "flip_random_character"
    /\ op.s = << 65, 127 >> /\ op.ret = << 65, 63 >>

----------------------------------------------------------------------------
(* Properties of replace_sql_token (specification SpecSql) *)

(* C8: when the chosen token is a keyword, it is replaced by a keyword   *)
(* of the set other than the original one, in upper case if the token was *)
(* fully upper case and in lower case otherwise, and no other token       *)
(* changes. Stated for the inputs whose content tokens are all keywords,  *)
(* where the chosen token is a keyword whatever the draw.                 *)
ContentTokens(ts) == { k \in 1 .. Len(ts) : ~ str_isspace(ts[k]) }

C8_KeywordSwapDiffers ==
    LET ts == _tok(op.s)
    IN  (/\ op.name = "replace_sql_token"
         /\ ContentTokens(ts) # {}
         /\ \A k \in ContentTokens(ts) : InKw(str_upper(ts[k])))
        => /\ raised = "none"
           /\ \E i \in ContentTokens(ts) : \E k \in 1 .. Len(_SQL_KW) :
                /\ _SQL_KW[k] # str_upper(ts[i])
                /\ op.ret = _unt([ts EXCEPT ![i] =
                                    IF str_isupper(ts[i]) THEN _SQL_KW[k]
                                    ELSE str_lower(_SQL_KW[k])])

====
